---- MODULE Spec2Model ----
(***************************************************************************)
(* r2d2-redis: RedisConnectionManager (src/src/lib.rs), the r2d2           *)
(* ManageConnection adapter for redis::Client, together with the pool that *)
(* drives it in the crate's tests (r2d2::Pool) and the transport of each   *)
(* redis::Connection it creates.                                           *)
(***************************************************************************)
EXTENDS Integers, Sequences, FiniteSets, TLC

\* ------------------------------------------------------------------ bounds
NumCallers == 3       \* threads that check a connection out of the pool
MaxFaults == 2        \* transport faults the environment injects in one run
MaxStreak == 2        \* consecutive successful is_valid calls that are counted

\* ------------------------------------------------------- program constants
test_basic_max_size == 2       \* Pool::builder().max_size(2)
test_is_valid_max_size == 1    \* Pool::builder().max_size(1)

\* ------------------------------------------------------------ Option/Result
None == [tag |-> "None"]
Some(x) == [tag |-> "Some", val |-> x]
Ok(v) == [ok |-> TRUE, val |-> v]
Err(k, d) == [ok |-> FALSE, kind |-> k, detail |-> d]

\* ------------------------------------------------- address specifications
\* A URL string is kept as the pieces url::Url::parse splits it into:
\* wf (the string parses as an absolute URL), scheme, host, and the path
\* with its slashes trimmed, as a sequence of characters.
Url(wf, scheme, host, path) ==
    [kind |-> "url", wf |-> wf, scheme |-> scheme, host |-> host, path |-> path]

TcpAddr(host) == [tag |-> "Tcp", host |-> host]
UnixAddr(path) == [tag |-> "Unix", path |-> path]
ConnectionInfo(addr, db) == [kind |-> "info", addr |-> addr, db |-> db]

Digits == {"0", "1", "2", "3", "4", "5", "6", "7", "8", "9"}
DigitVal(ch) ==
    CASE ch = "0" -> 0 [] ch = "1" -> 1 [] ch = "2" -> 2 [] ch = "3" -> 3
      [] ch = "4" -> 4 [] ch = "5" -> 5 [] ch = "6" -> 6 [] ch = "7" -> 7
      [] ch = "8" -> 8 [] ch = "9" -> 9

RECURSIVE ParseDigits(_, _)
ParseDigits(s, acc) ==
    IF s = <<>> THEN acc ELSE ParseDigits(Tail(s), acc * 10 + DigitVal(Head(s)))

\* path.parse::<i64>().ok() on the trimmed path of a redis:// URL
parse_i64(s) ==
    IF s # <<>> /\ \A i \in 1..Len(s) : s[i] \in Digits
    THEN Some(ParseDigits(s, 0))
    ELSE None

\* the address specifications handed to new / with_timeout
UrlLocalhost == Url(TRUE, "redis", "localhost", <<>>)          \* redis://localhost
UrlLocalhostDb1 == Url(TRUE, "redis", "localhost", <<"1">>)     \* redis://localhost/1
UrlUnixSock == Url(TRUE, "unix", "", <<"s">>)                   \* unix:///s
UrlHttp == Url(TRUE, "http", "localhost", <<>>)                 \* http://localhost
UrlNoHost == Url(TRUE, "redis", "", <<>>)                       \* redis://
UrlBadDb == Url(TRUE, "redis", "localhost", <<"x">>)            \* redis://localhost/x
UrlRelative == Url(FALSE, "", "", <<>>)                         \* localhost
InfoLocalhost == ConnectionInfo(TcpAddr("localhost"), 0)

ValidParams == {UrlLocalhost, UrlLocalhostDb1, UrlUnixSock, InfoLocalhost}
MalformedParams == {UrlHttp, UrlNoHost, UrlBadDb, UrlRelative}
Params == ValidParams \cup MalformedParams
Timeouts == {None, Some(0), Some(1)}

\* params.into_connection_info(): the identity on a ConnectionInfo, the URL
\* parser on a string.
into_connection_info(p) ==
    IF p.kind = "info" THEN Ok(p)
    ELSE IF ~p.wf \/ p.scheme \notin {"redis", "unix", "redis+unix"}
         THEN Err("InvalidClientConfig", "Redis URL did not parse")
    ELSE IF p.scheme = "redis"
         THEN IF p.host = ""
              THEN Err("InvalidClientConfig", "Missing hostname")
              ELSE IF p.path = <<>>
                   THEN Ok(ConnectionInfo(TcpAddr(p.host), 0))
                   ELSE IF parse_i64(p.path) = None
                        THEN Err("InvalidClientConfig", "Invalid database number")
                        ELSE Ok(ConnectionInfo(TcpAddr(p.host), parse_i64(p.path).val))
    ELSE Ok(ConnectionInfo(UnixAddr(p.path), 0))

\* ------------------------------------------------- RedisConnectionManager
RedisConnectionManager(info, timeout) ==
    [connection_info |-> info, timeout |-> timeout]

\* a plausible slip: the address is kept as given and parsed lazily
with_timeout_lazy(params, timeout) ==
    Ok(RedisConnectionManager(params, timeout))

\* a plausible slip: a malformed address falls back to the default endpoint
with_timeout_fallback(params, timeout) ==
    LET r == into_connection_info(params) IN
    Ok(RedisConnectionManager(IF r.ok THEN r.val ELSE InfoLocalhost, timeout))

with_timeout(params, timeout) ==
    LET r == into_connection_info(params) IN
    IF r.ok THEN Ok(RedisConnectionManager(r.val, timeout)) ELSE r

new(params) == with_timeout(params, None)

\* -------------------------------------------------------- redis::Connection
\* open:  the connection's own "transport still open" flag (is_open)
\* link:  what the network has done to the session
\*          up    the peer answers every command
\*          fin   the peer closed the session (reads reach end of file)
\*          rst   the session was reset (writes fail)
\*          mute  half-open: the peer never answers
\*          shut  this side shut the socket down after a failed read
\* inbuf: replies received and not yet read
\* rto:   a read timeout has been set on the socket (set_read_timeout)
Connection(open, link, inbuf, rto) ==
    [open |-> open, link |-> link, inbuf |-> inbuf, rto |-> rto]
Closed == [open |-> FALSE, link |-> "closed", inbuf |-> <<>>, rto |-> FALSE]

\* the server's reply to a command
Reply(cmd) ==
    CASE cmd = "PING" -> "PONG"
      [] cmd = "GET" -> "DATA"
      [] OTHER -> "ERR"
Cmds == {"PING", "GET", "EVAL"}

\* Connection::req_packed_command: write the command, then read one reply.
\* slow: the reply to this command arrives only after the read has given up.
\* Result: res (Ok(value), Err, or Hang when the read never returns) and the
\* connection afterwards.
Hang == [ok |-> FALSE, kind |-> "Hang", detail |-> "read never returns"]
req_command(conn, cmd, slow) ==
    IF conn.link \in {"rst", "shut"}
    THEN \* send_bytes fails: is_connection_dropped
         [res |-> Err("IoError", "BrokenPipe"),
          conn |-> [conn EXCEPT !.open = FALSE]]
    ELSE IF conn.inbuf # <<>>
    THEN \* an earlier reply is read in place of this command's
         LET rest == IF conn.link = "up"
                     THEN Append(Tail(conn.inbuf), Reply(cmd))
                     ELSE Tail(conn.inbuf)
             v == Head(conn.inbuf)
         IN [res |-> IF v = "ERR" THEN Err("ResponseError", "server error")
                     ELSE Ok(v),
             conn |-> [conn EXCEPT !.inbuf = rest]]
    ELSE IF conn.link = "up"
    THEN IF slow /\ conn.rto
         THEN [res |-> Err("IoError", "TimedOut"),
               conn |-> [conn EXCEPT !.inbuf = <<Reply(cmd)>>]]
         ELSE [res |-> IF Reply(cmd) = "ERR"
                       THEN Err("ResponseError", "server error")
                       ELSE Ok(Reply(cmd)),
               conn |-> conn]
    ELSE IF conn.link = "fin"
    THEN \* end of file: the socket is shut down and marked not open
         [res |-> Err("IoError", "UnexpectedEof"),
          conn |-> [conn EXCEPT !.open = FALSE, !.link = "shut"]]
    ELSE \* mute
         IF conn.rto
         THEN [res |-> Err("IoError", "TimedOut"), conn |-> conn]
         ELSE [res |-> Hang, conn |-> conn]

\* FromRedisValue for (): every reply value converts to ()
from_redis_value_unit(v) == Ok("unit")

\* cmd.query::<()>(conn)
query_unit(conn, cmd, slow) ==
    LET r == req_command(conn, cmd, slow) IN
    [res |-> IF r.res.ok THEN from_redis_value_unit(r.res.val) ELSE r.res,
     conn |-> r.conn]

\* -------------------------------------------- impl r2d2::ManageConnection
\* Client::open(info): into_connection_info on what the manager holds
Client_open(info) == into_connection_info(info)

\* net: what the network does to this attempt
\*   accept          the session is established
\*   refused         the endpoint refuses the connection
\*   blackhole       the handshake never completes
\*   select_refused  the server refuses SELECT db (only sent when db # 0)
NetOutcomes == {"accept", "refused", "blackhole", "select_refused"}

\* the session the network's answer leaves a client with: an error, or a
\* connection marked open on a live transport. A TCP handshake that never
\* completes ends at the bound in force (the given one, or the transport's
\* own); UnixStream::connect has no bound and does not return
establish(info, net) ==
    IF net = "refused" THEN Err("IoError", "ConnectionRefused")
    ELSE IF net = "blackhole"
         THEN IF info.addr.tag = "Unix" THEN Hang
              ELSE Err("IoError", "TimedOut")
    ELSE IF net = "select_refused" /\ info.db # 0
         THEN Err("ResponseError", "Redis server refused to switch database")
    ELSE Ok(Connection(TRUE, "up", <<>>, FALSE))

\* client.get_connection(): bounded only by the transport's own default
get_connection(info, net) == establish(info, net)

\* client.get_connection_with_timeout(timeout): TcpStream::connect_timeout,
\* which rejects a zero Duration; a Unix socket is connected without it
get_connection_with_timeout(info, timeout, net) ==
    IF info.addr.tag = "Tcp" /\ timeout = 0
    THEN Err("IoError", "InvalidInput")
    ELSE establish(info, net)

\* a plausible slip: a failed attempt is followed by a second one
connect_retry(m, net) ==
    LET cl == Client_open(m.connection_info)
        first == IF m.timeout.tag = "Some"
                 THEN get_connection_with_timeout(cl.val, m.timeout.val, net)
                 ELSE get_connection(cl.val, net)
    IN IF ~cl.ok THEN cl
       ELSE IF first.ok THEN first
       ELSE get_connection(cl.val, "accept")

\* connect, first half: redis::Client::open(self.connection_info.clone())
connect_open(m) == Client_open(m.connection_info)

\* connect, second half: and_then(|client| ...) on the opened client cl
connect_and_then(m, cl, net) ==
    IF ~cl.ok THEN cl
    ELSE IF m.timeout.tag = "Some"
         THEN get_connection_with_timeout(cl.val, m.timeout.val, net)
         ELSE get_connection(cl.val, net)

connect(m, net) == connect_and_then(m, connect_open(m), net)

\* a slip: the manager hands out one cached connection instance again
new_instance_cached(n) == n

\* the instance counter once a connect() has returned a new Connection value:
\* every successful call constructs its own
new_instance(n) == n + 1

\* a plausible slip: every probe error is swallowed
is_valid_swallow(conn, slow) ==
    [res |-> Ok("unit"), conn |-> query_unit(conn, "PING", slow).conn]

\* a plausible slip: the probe marks the connection open again
is_valid_reopen(conn, slow) ==
    LET r == query_unit(conn, "PING", slow) IN
    [res |-> r.res, conn |-> [r.conn EXCEPT !.open = TRUE]]

\* a plausible slip: the probe is written and its reply is left unread
is_valid_unread(conn, slow) ==
    [res |-> Ok("unit"),
     conn |-> IF conn.link = "up"
              THEN [conn EXCEPT !.inbuf = Append(conn.inbuf, Reply("PING"))]
              ELSE conn]

is_valid(conn, slow) == query_unit(conn, "PING", slow)

\* a plausible slip: brokenness is found out by probing (an active check)
has_broken_probe(conn) == ~is_valid(conn, FALSE).res.ok

\* a plausible slip: the negation is dropped
has_broken_inverted(conn) == conn.open

has_broken(conn) == ~conn.open

\* ------------------------------------------------------------ program state
VARIABLES
    mgr,            \* the RedisConnectionManager, or NoMgr before construction
    ctor,           \* outcome of the last new / with_timeout call
    conns,          \* connection instance -> its Connection, Closed once dropped
    next_id,        \* the next connection instance connect() creates
    faults,         \* transport faults injected so far
    \* the pool (r2d2::Pool) and the threads that use it
    phase,          \* "init", "building", "running", "build_failed"
    cfg,            \* the pool's configuration (max_size, test_on_check_out)
    idle,           \* the pool's idle connections, a stack (Vec push / pop)
    num_conns,      \* the pool's count of live connections
    pending_conns,  \* connect tasks scheduled and not yet successful
    pc,             \* each caller's position ("retrying": in the checkout
                    \* loop, after a failed is_valid dropped a connection)
    held,           \* each caller's checked-out connection, 0 for none
    got,            \* per caller: how its checked-out connection was validated
    discarded,      \* connection instances the pool has dropped
    \* a caller that drives the adapter directly, without a pool
    owned,          \* the connections it keeps
    ret,            \* the adapter call it made last and what that returned
    seen_fail,      \* its connections on which an I/O call has failed
    streak,         \* successful is_valid calls it made in a row, up to MaxStreak
    \* threads that call connect() on the one manager at the same time
    cstep,          \* each thread's position: "idle", "opened", "returned", "hung"
    client,         \* each thread's redis::Client (what Client::open returned)
    cret            \* what each thread's connect() call returned

adapter_vars == <<mgr, ctor, conns, next_id, faults>>
pool_vars == <<phase, cfg, idle, num_conns, pending_conns, pc, held, got, discarded>>
direct_vars == <<owned, ret, seen_fail, streak>>
conc_vars == <<cstep, client, cret>>
vars == <<adapter_vars, pool_vars, direct_vars, conc_vars>>

Callers == 1..NumCallers
MaxConns == test_basic_max_size + MaxFaults
ConnIds == 1..MaxConns

NoMgr == [tag |-> "NoMgr"]
NoCtor == [called |-> FALSE, malformed |-> FALSE, res |-> "none"]
NoCfg == [max_size |-> 0, test_on_check_out |-> FALSE]
NoGot == [validated |-> FALSE, round_trip |-> FALSE]
\* link: the session's state when is_valid was called, or what the network
\* did to a connect attempt
Ret(op, c, ok, kind, wire, link) ==
    [op |-> op, conn |-> c, ok |-> ok, kind |-> kind, wire |-> wire, link |-> link]
NoRet == Ret("none", 0, FALSE, "none", "none", "none")
NoClient == [tag |-> "NoClient"]
CRet(c, ok, kind, net) == [conn |-> c, ok |-> ok, kind |-> kind, net |-> net]
NoCRet == CRet(0, FALSE, "none", "none")

\* the configurations the tests build: test_basic and test_is_valid
Configs == {[max_size |-> test_basic_max_size, test_on_check_out |-> FALSE],
            [max_size |-> test_is_valid_max_size, test_on_check_out |-> TRUE]}

Min(a, b) == IF a < b THEN a ELSE b
Max(a, b) == IF a > b THEN a ELSE b

Init ==
    /\ mgr = NoMgr
    /\ ctor = NoCtor
    /\ conns = [c \in ConnIds |-> Closed]
    /\ next_id = 1
    /\ faults = 0
    /\ phase = "init"
    /\ cfg = NoCfg
    /\ idle = <<>>
    /\ num_conns = 0
    /\ pending_conns = 0
    /\ pc = [t \in Callers |-> "start"]
    /\ held = [t \in Callers |-> 0]
    /\ got = [t \in Callers |-> NoGot]
    /\ discarded = {}
    /\ owned = {}
    /\ ret = NoRet
    /\ seen_fail = {}
    /\ streak = 0
    /\ cstep = [t \in Callers |-> "idle"]
    /\ client = [t \in Callers |-> NoClient]
    /\ cret = [t \in Callers |-> NoCRet]

\* ------------------------------------------------------------ construction
Construct(r, p) ==
    /\ phase = "init"
    /\ mgr = NoMgr
    /\ ctor' = [called |-> TRUE, malformed |-> p \in MalformedParams,
                res |-> IF r.ok THEN "Ok" ELSE r.kind]
    /\ mgr' = IF r.ok THEN r.val ELSE mgr
    /\ UNCHANGED <<conns, next_id, faults, pool_vars, direct_vars>>
    /\ UNCHANGED conc_vars

\* RedisConnectionManager::new(params)
New(p) == Construct(new(p), p)

\* RedisConnectionManager::with_timeout(params, timeout)
WithTimeout(p, t) == Construct(with_timeout(p, t), p)

\* ------------------------------------------------------------ the network
\* the session of a live connection is closed, reset or goes silent
Fault(c, l) ==
    /\ faults < MaxFaults
    /\ conns[c].link = "up"
    /\ conns' = [conns EXCEPT ![c].link = l]
    /\ faults' = faults + 1
    /\ UNCHANGED <<mgr, ctor, next_id, pool_vars, direct_vars>>
    /\ UNCHANGED conc_vars

\* whether the slow choice changes what a call on conn does
SlowMatters(conn) == conn.rto /\ conn.link = "up" /\ conn.inbuf = <<>>
SlowChoices(conn) ==
    IF faults < MaxFaults /\ SlowMatters(conn) THEN BOOLEAN ELSE {FALSE}

\* what a PING probe met on the wire
ProbeOutcome(raw) ==
    IF raw.ok THEN (IF raw.val = "PONG" THEN "pong" ELSE "other_value")
    ELSE IF raw.kind = "Hang" THEN "hang"
    ELSE IF raw.kind = "ResponseError" THEN "error_reply"
    ELSE IF raw.detail = "TimedOut" THEN "timeout"
    ELSE "transport_error"

\* ------------------------------------------------------------ the pool
\* a slip: nobody is woken
NotifyNobody(f) == {f}

\* Condvar::notify_one: one waiting caller, if any, resumes its checkout
NotifyOne(f) ==
    LET W == {t \in Callers : f[t] = "waiting"} IN
    IF W = {} THEN {f} ELSE {[f EXCEPT ![w] = "trying"] : w \in W}

\* establish_idle_connections: top the idle set up to min_idle (= max_size)
establish_idle_connections(n_idle, num, pending) ==
    pending + Min(Max(0, cfg.max_size - n_idle),
                  Max(0, cfg.max_size - num - pending))

\* a slip: the connection is forgotten by the count and kept in the idle set
drop_conns_requeue(c, idl) ==
    [conns |-> conns,
     discarded |-> discarded \cup {c},
     idle |-> Append(idl, c),
     num_conns |-> num_conns - 1,
     pending_conns |->
         establish_idle_connections(Len(idl) + 1, num_conns - 1, pending_conns)]

\* a slip: the dropped connection still counts against the capacity
drop_conns_leak(c, idl) ==
    [conns |-> [conns EXCEPT ![c] = Closed],
     discarded |-> discarded \cup {c},
     idle |-> idl,
     num_conns |-> num_conns,
     pending_conns |->
         establish_idle_connections(Len(idl), num_conns, pending_conns)]

\* drop_conns: connection c leaves the pool for good, its destructor runs,
\* and a replacement is scheduled; idl is the idle set at that moment
drop_conns(c, idl) ==
    [conns |-> [conns EXCEPT ![c] = Closed],
     discarded |-> discarded \cup {c},
     idle |-> idl,
     num_conns |-> num_conns - 1,
     pending_conns |->
         establish_idle_connections(Len(idl), num_conns - 1, pending_conns)]

\* a slip: the idle connection is read and left in place
pop_idle_keep(idl) == idl

\* internals.conns.pop(): the idle set once its last connection is taken
pop_idle(idl) == SubSeq(idl, 1, Len(idl) - 1)

\* a slip: no capacity check
add_connection_unchecked(num, pending) == pending + 1

\* add_connection: schedule one connect unless the pool is at capacity
add_connection(num, pending) ==
    IF num + pending >= cfg.max_size THEN pending ELSE pending + 1

\* Pool::builder().max_size(n).test_on_check_out(b).build(manager)
Build(c) ==
    /\ phase = "init"
    /\ mgr # NoMgr
    /\ owned = {}
    /\ phase' = "building"
    /\ cfg' = c
    /\ pending_conns' = c.max_size
    /\ UNCHANGED <<adapter_vars, idle, num_conns, pc, held, got, discarded,
                   direct_vars>>
    /\ UNCHANGED conc_vars

\* wait_for_initialization: every initial connection is established
BuildOk ==
    /\ phase = "building"
    /\ num_conns = cfg.max_size
    /\ phase' = "running"
    /\ UNCHANGED <<adapter_vars, cfg, idle, num_conns, pending_conns, pc, held,
                   got, discarded, direct_vars>>
    /\ UNCHANGED conc_vars

\* wait_for_initialization times out: build returns an error, the pool and
\* its connections are dropped
BuildFail ==
    /\ phase = "building"
    /\ num_conns < cfg.max_size
    /\ phase' = "build_failed"
    /\ conns' = [c \in ConnIds |-> Closed]
    /\ discarded' = discarded \cup {idle[i] : i \in 1..Len(idle)}
    /\ idle' = <<>>
    /\ num_conns' = 0
    /\ pending_conns' = 0
    /\ UNCHANGED <<mgr, ctor, next_id, faults, cfg, pc, held, got, direct_vars>>
    /\ UNCHANGED conc_vars

\* the task add_connection schedules: manager.connect(), then the new
\* connection joins the idle set; on an error the task is rescheduled
ConnectTask(net) ==
    /\ phase \in {"building", "running"}
    /\ pending_conns > 0
    /\ next_id <= MaxConns
    /\ LET r == connect(mgr, net) IN
       IF r.ok
       THEN /\ conns' = [conns EXCEPT ![next_id] = r.val]
            /\ next_id' = new_instance(next_id)
            /\ idle' = Append(idle, next_id)
            /\ pending_conns' = pending_conns - 1
            /\ num_conns' = num_conns + 1
            /\ pc' \in NotifyOne(pc)
       ELSE UNCHANGED <<conns, next_id, idle, pending_conns, num_conns, pc>>
    /\ UNCHANGED <<mgr, ctor, faults, phase, cfg, held, got, discarded,
                   direct_vars>>
    /\ UNCHANGED conc_vars

\* Pool::get: the caller enters get_timeout's loop
Get(t) ==
    /\ phase = "running"
    /\ pc[t] = "start"
    /\ pc' = [pc EXCEPT ![t] = "trying"]
    /\ UNCHANGED <<adapter_vars, phase, cfg, idle, num_conns, pending_conns,
                   held, got, discarded, direct_vars>>
    /\ UNCHANGED conc_vars

\* one pass of get_timeout's loop: try_get_inner, then add_connection and the
\* wait on the condition variable when no idle connection is left
TryGetInner(t) ==
    /\ phase = "running"
    /\ pc[t] \in {"trying", "retrying"}
    /\ IF idle = <<>>
       THEN /\ pending_conns' = add_connection(num_conns, pending_conns)
            /\ pc' = [pc EXCEPT ![t] = "waiting"]
            /\ UNCHANGED <<conns, faults, idle, num_conns, held, got, discarded>>
       ELSE LET c == idle[Len(idle)]
                rest == pop_idle(idle)
            IN
            /\ IF cfg.test_on_check_out
               THEN \E slow \in SlowChoices(conns[c]) :
                    LET v == is_valid(conns[c], slow)
                        raw == req_command(conns[c], "PING", slow).res
                    IN
                    /\ faults' = IF slow THEN faults + 1 ELSE faults
                    /\ IF v.res.ok
                       THEN /\ conns' = [conns EXCEPT ![c] = v.conn]
                            /\ idle' = rest
                            /\ held' = [held EXCEPT ![t] = c]
                            /\ pc' = [pc EXCEPT ![t] = "holding"]
                            /\ got' = [got EXCEPT ![t] =
                                         [validated |-> TRUE, round_trip |-> raw.ok]]
                            /\ UNCHANGED <<num_conns, pending_conns, discarded>>
                       ELSE IF v.res.kind = "Hang"
                       THEN /\ idle' = rest
                            /\ held' = [held EXCEPT ![t] = c]
                            /\ pc' = [pc EXCEPT ![t] = "hung"]
                            /\ UNCHANGED <<conns, num_conns, pending_conns, got,
                                           discarded>>
                       ELSE \* drop_conns, and the loop goes round again
                            LET d == drop_conns(c, rest) IN
                            /\ conns' = d.conns
                            /\ discarded' = d.discarded
                            /\ idle' = d.idle
                            /\ num_conns' = d.num_conns
                            /\ pending_conns' = d.pending_conns
                            /\ pc' = [pc EXCEPT ![t] = "retrying"]
                            /\ UNCHANGED <<held, got>>
               ELSE /\ idle' = rest
                    /\ held' = [held EXCEPT ![t] = c]
                    /\ pc' = [pc EXCEPT ![t] = "holding"]
                    /\ got' = [got EXCEPT ![t] = NoGot]
                    /\ UNCHANGED <<conns, faults, num_conns, pending_conns,
                                   discarded>>
    /\ UNCHANGED <<mgr, ctor, next_id, phase, cfg, direct_vars>>
    /\ UNCHANGED conc_vars

\* get_timeout: the wait on the condition variable reaches its deadline
GetTimeout(t) ==
    /\ phase = "running"
    /\ pc[t] = "waiting"
    /\ pc' = [pc EXCEPT ![t] = "failed"]
    /\ UNCHANGED <<adapter_vars, phase, cfg, idle, num_conns, pending_conns,
                   held, got, discarded, direct_vars>>
    /\ UNCHANGED conc_vars

\* a slip: the returned connection is kept without asking has_broken
put_back_keep(c, idl) ==
    [kept |-> TRUE,
     conns |-> conns,
     discarded |-> discarded,
     idle |-> Append(idl, c),
     num_conns |-> num_conns,
     pending_conns |-> pending_conns]

\* put_back: has_broken decides whether the returned connection c is dropped
\* or joins the idle set idl
put_back(c, idl) ==
    IF has_broken(conns[c])
    THEN LET d == drop_conns(c, idl) IN
         [kept |-> FALSE,
          conns |-> d.conns,
          discarded |-> d.discarded,
          idle |-> d.idle,
          num_conns |-> d.num_conns,
          pending_conns |-> d.pending_conns]
    ELSE [kept |-> TRUE,
          conns |-> conns,
          discarded |-> discarded,
          idle |-> Append(idl, c),
          num_conns |-> num_conns,
          pending_conns |-> pending_conns]

\* drop(PooledConnection): put_back, and a waiting caller is woken when the
\* connection was kept
PutBack(t) ==
    /\ pc[t] = "holding"
    /\ LET r == put_back(held[t], idle) IN
       /\ conns' = r.conns
       /\ discarded' = r.discarded
       /\ idle' = r.idle
       /\ num_conns' = r.num_conns
       /\ pending_conns' = r.pending_conns
       /\ pc' \in IF r.kept THEN NotifyOne([pc EXCEPT ![t] = "done"])
                 ELSE {[pc EXCEPT ![t] = "done"]}
    /\ held' = [held EXCEPT ![t] = 0]
    /\ got' = [got EXCEPT ![t] = NoGot]
    /\ UNCHANGED <<mgr, ctor, next_id, faults, phase, cfg, direct_vars>>
    /\ UNCHANGED conc_vars

\* ------------------------------------------------------------ the callers
\* redis::cmd(..).query(&mut *conn) on a checked-out connection
Query(t, cmd) ==
    /\ pc[t] = "holding"
    /\ LET c == held[t] IN
       \E slow \in SlowChoices(conns[c]) :
       LET r == req_command(conns[c], cmd, slow) IN
       /\ conns' = [conns EXCEPT ![c] = r.conn]
       /\ faults' = IF slow THEN faults + 1 ELSE faults
       /\ pc' = IF r.res.ok \/ r.res.kind # "Hang" THEN pc
                ELSE [pc EXCEPT ![t] = "hung"]
    /\ UNCHANGED <<mgr, ctor, next_id, phase, cfg, idle, num_conns,
                   pending_conns, held, got, discarded, direct_vars>>
    /\ UNCHANGED conc_vars

\* conn.set_read_timeout(Some(d)) on a checked-out connection
SetReadTimeout(t) ==
    /\ pc[t] = "holding"
    /\ ~conns[held[t]].rto
    /\ conns' = [conns EXCEPT ![held[t]].rto = TRUE]
    /\ UNCHANGED <<mgr, ctor, next_id, faults, pool_vars, direct_vars>>
    /\ UNCHANGED conc_vars

\* the program of the crate's tests: the manager is built from
\* "redis://localhost", a pool is built over it, threads check out and return
Next ==
    \/ New(UrlLocalhost)
    \/ \E c \in Configs : Build(c)
    \/ BuildOk
    \/ BuildFail
    \/ \E net \in NetOutcomes : ConnectTask(net)
    \/ \E t \in Callers : Get(t)
    \/ \E t \in Callers : TryGetInner(t)
    \/ \E t \in Callers : GetTimeout(t)
    \/ \E t \in Callers : PutBack(t)
    \/ \E t \in Callers, cmd \in Cmds : Query(t, cmd)
    \/ \E t \in Callers : SetReadTimeout(t)
    \/ \E c \in ConnIds, l \in {"fin", "rst", "mute"} : Fault(c, l)

Spec == Init /\ [][Next]_vars

\* ------------------------------------------- the adapter, called directly
\* the three operations of ManageConnection, called one at a time by a
\* single owner that keeps one connection at a time and drops it before it
\* connects again, for every address and timeout
Running == ret.op # "hung"

\* the owner may go on with connection c: it owns c, and c has not just
\* failed is_valid (a connection that fails validation is only dropped)
Usable(c) ==
    /\ c \in owned
    /\ ~(ret.op = "is_valid" /\ ~ret.ok /\ ret.conn = c)

\* manager.connect()
Connect(net) ==
    /\ Running
    /\ mgr # NoMgr
    /\ phase = "init"
    /\ next_id <= MaxConns
    /\ owned = {}
    /\ LET r == connect(mgr, net) IN
       IF r.ok
       THEN /\ conns' = [conns EXCEPT ![next_id] = r.val]
            /\ next_id' = new_instance(next_id)
            /\ owned' = owned \cup {next_id}
            /\ ret' = Ret("connect", next_id, TRUE, "none", "none", net)
       ELSE /\ ret' = IF r.kind = "Hang"
                      THEN Ret("hung", 0, FALSE, "Hang", "none", net)
                      ELSE Ret("connect", 0, FALSE, r.kind, r.detail, net)
            /\ UNCHANGED <<conns, next_id, owned>>
    /\ streak' = 0
    /\ UNCHANGED <<mgr, ctor, faults, pool_vars, seen_fail>>
    /\ UNCHANGED conc_vars

\* manager.is_valid(&mut conn)
IsValid(c) ==
    /\ Running
    /\ Usable(c)
    /\ \E slow \in SlowChoices(conns[c]) :
       LET v == is_valid(conns[c], slow)
           raw == req_command(conns[c], "PING", slow).res
       IN
       /\ faults' = IF slow THEN faults + 1 ELSE faults
       /\ conns' = [conns EXCEPT ![c] = v.conn]
       /\ ret' = IF ~v.res.ok /\ v.res.kind = "Hang"
                 THEN Ret("hung", c, FALSE, "Hang", "hang", conns[c].link)
                 ELSE Ret("is_valid", c, v.res.ok,
                          IF v.res.ok THEN "none" ELSE v.res.kind,
                          ProbeOutcome(raw), conns[c].link)
       /\ seen_fail' = IF ~raw.ok /\ raw.kind = "IoError"
                       THEN seen_fail \cup {c} ELSE seen_fail
       /\ streak' = IF v.res.ok THEN Min(streak + 1, MaxStreak) ELSE 0
    /\ UNCHANGED <<mgr, ctor, next_id, pool_vars, owned>>
    /\ UNCHANGED conc_vars

\* manager.has_broken(&mut conn)
HasBroken(c) ==
    /\ Running
    /\ Usable(c)
    /\ ret' = Ret("has_broken", c, has_broken(conns[c]), "none", "none", "none")
    /\ streak' = 0
    /\ UNCHANGED <<adapter_vars, pool_vars, owned, seen_fail>>
    /\ UNCHANGED conc_vars

\* redis::cmd(..).query(&mut conn) by the owner
Use(c, cmd) ==
    /\ Running
    /\ Usable(c)
    /\ \E slow \in SlowChoices(conns[c]) :
       LET r == req_command(conns[c], cmd, slow) IN
       /\ faults' = IF slow THEN faults + 1 ELSE faults
       /\ conns' = [conns EXCEPT ![c] = r.conn]
       /\ ret' = IF ~r.res.ok /\ r.res.kind = "Hang"
                 THEN Ret("hung", c, FALSE, "Hang", "none", "none")
                 ELSE Ret("query", c, r.res.ok,
                          IF r.res.ok THEN "none" ELSE r.res.kind,
                          "none", "none")
       /\ seen_fail' = IF ~r.res.ok /\ r.res.kind = "IoError"
                       THEN seen_fail \cup {c} ELSE seen_fail
       /\ streak' = 0
    /\ UNCHANGED <<mgr, ctor, next_id, pool_vars, owned>>
    /\ UNCHANGED conc_vars

\* conn.set_read_timeout(Some(d)) by the owner
SetTimeout(c) ==
    /\ Running
    /\ Usable(c)
    /\ ~conns[c].rto
    /\ conns' = [conns EXCEPT ![c].rto = TRUE]
    /\ ret' = Ret("set_read_timeout", c, TRUE, "none", "none", "none")
    /\ streak' = 0
    /\ UNCHANGED <<mgr, ctor, next_id, faults, pool_vars, owned, seen_fail>>
    /\ UNCHANGED conc_vars

\* drop(conn) by the owner
Close(c) ==
    /\ Running
    /\ c \in owned
    /\ conns' = [conns EXCEPT ![c] = Closed]
    /\ owned' = owned \ {c}
    /\ seen_fail' = seen_fail \ {c}
    /\ ret' = Ret("drop", c, TRUE, "none", "none", "none")
    /\ streak' = 0
    /\ UNCHANGED <<mgr, ctor, next_id, faults, pool_vars>>
    /\ UNCHANGED conc_vars

AdapterNext ==
    \/ \E p \in Params : New(p)
    \/ \E p \in Params, t \in Timeouts : WithTimeout(p, t)
    \/ \E net \in NetOutcomes : Connect(net)
    \/ \E c \in ConnIds : IsValid(c)
    \/ \E c \in ConnIds : HasBroken(c)
    \/ \E c \in ConnIds, cmd \in Cmds : Use(c, cmd)
    \/ \E c \in ConnIds : SetTimeout(c)
    \/ \E c \in ConnIds : Close(c)
    \/ \E c \in ConnIds, l \in {"fin", "rst", "mute"} : Fault(c, l)

AdapterSpec == Init /\ [][AdapterNext]_vars

\* ------------------------------------------- connect(), called concurrently
\* NumCallers threads share one manager (&self) and call connect() at the
\* same time, as the pool's worker threads do; a call is in flight between
\* its Client::open and the return of get_connection, and calls in flight
\* overlap and return in any order
ConnectEnter(t) ==
    /\ mgr # NoMgr
    /\ cstep[t] = "idle"
    /\ next_id <= MaxConns
    /\ cstep' = [cstep EXCEPT ![t] = "opened"]
    /\ client' = [client EXCEPT ![t] = connect_open(mgr)]
    /\ UNCHANGED <<adapter_vars, pool_vars, direct_vars, cret>>

ConnectReturn(t, net) ==
    /\ cstep[t] = "opened"
    /\ next_id <= MaxConns
    /\ LET r == connect_and_then(mgr, client[t], net) IN
       IF r.ok
       THEN /\ conns' = [conns EXCEPT ![next_id] = r.val]
            /\ next_id' = new_instance(next_id)
            /\ cret' = [cret EXCEPT ![t] = CRet(next_id, TRUE, "none", net)]
            /\ cstep' = [cstep EXCEPT ![t] = "returned"]
       ELSE /\ cret' = [cret EXCEPT ![t] = CRet(0, FALSE, r.kind, net)]
            /\ cstep' = [cstep EXCEPT ![t] =
                            IF r.kind = "Hang" THEN "hung" ELSE "returned"]
            /\ UNCHANGED <<conns, next_id>>
    /\ UNCHANGED <<mgr, ctor, faults, pool_vars, direct_vars, client>>

\* the thread drops what its call returned and is ready to call again
ConnectDone(t) ==
    /\ cstep[t] = "returned"
    /\ conns' = IF cret[t].ok THEN [conns EXCEPT ![cret[t].conn] = Closed]
                ELSE conns
    /\ cstep' = [cstep EXCEPT ![t] = "idle"]
    /\ client' = [client EXCEPT ![t] = NoClient]
    /\ cret' = [cret EXCEPT ![t] = NoCRet]
    /\ UNCHANGED <<mgr, ctor, next_id, faults, pool_vars, direct_vars>>

ConcurrentNext ==
    \/ \E p \in Params, t \in Timeouts : WithTimeout(p, t)
    \/ \E t \in Callers : ConnectEnter(t)
    \/ \E t \in Callers, net \in NetOutcomes : ConnectReturn(t, net)
    \/ \E t \in Callers : ConnectDone(t)

ConcurrentSpec == Init /\ [][ConcurrentNext]_vars

\* ------------------------------------------- the tests, service reachable
\* the network injects no fault: the fault budget starts spent
LiveInit ==
    /\ mgr = NoMgr
    /\ ctor = NoCtor
    /\ conns = [c \in ConnIds |-> Closed]
    /\ next_id = 1
    /\ faults = MaxFaults
    /\ phase = "init"
    /\ cfg = NoCfg
    /\ idle = <<>>
    /\ num_conns = 0
    /\ pending_conns = 0
    /\ pc = [t \in Callers |-> "start"]
    /\ held = [t \in Callers |-> 0]
    /\ got = [t \in Callers |-> NoGot]
    /\ discarded = {}
    /\ owned = {}
    /\ ret = NoRet
    /\ seen_fail = {}
    /\ streak = 0
    /\ cstep = [t \in Callers |-> "idle"]
    /\ client = [t \in Callers |-> NoClient]
    /\ cret = [t \in Callers |-> NoCRet]

LiveNext ==
    \/ New(UrlLocalhost)
    \/ \E c \in Configs : Build(c)
    \/ BuildOk
    \/ BuildFail
    \/ \E net \in NetOutcomes : ConnectTask(net)
    \/ \E t \in Callers : Get(t)
    \/ \E t \in Callers : TryGetInner(t)
    \/ \E t \in Callers : GetTimeout(t)
    \/ \E t \in Callers : PutBack(t)
    \/ \E t \in Callers, cmd \in Cmds : Query(t, cmd)
    \/ \E t \in Callers : SetReadTimeout(t)

\* every thread runs on (each calls get once and drops what it got), the
\* pool's worker runs its connect task, and the service accepts connections
Fairness ==
    /\ WF_vars(BuildOk)
    /\ WF_vars(ConnectTask("accept"))
    /\ \A t \in Callers :
          /\ WF_vars(Get(t))
          /\ WF_vars(TryGetInner(t))
          /\ WF_vars(PutBack(t))

LiveSpec == LiveInit /\ [][LiveNext]_vars /\ Fairness

\* -------------------------------- test_is_valid, with a fallible transport
\* the pool of test_is_valid (max_size 1, test_on_check_out) over a network
\* that injects at most MaxFaults faults and is sound from then on
RetryNext ==
    \/ New(UrlLocalhost)
    \/ Build([max_size |-> test_is_valid_max_size, test_on_check_out |-> TRUE])
    \/ BuildOk
    \/ BuildFail
    \/ \E net \in NetOutcomes : ConnectTask(net)
    \/ \E t \in Callers : Get(t)
    \/ \E t \in Callers : TryGetInner(t)
    \/ \E t \in Callers : GetTimeout(t)
    \/ \E t \in Callers : PutBack(t)
    \/ \E t \in Callers, cmd \in Cmds : Query(t, cmd)
    \/ \E t \in Callers : SetReadTimeout(t)
    \/ \E c \in ConnIds, l \in {"fin", "rst", "mute"} : Fault(c, l)

RetrySpec == Init /\ [][RetryNext]_vars /\ Fairness

\* ------------------------------------------------------------------ claims

\* C1 (as stated): validate returns success only if the PING probe read its
\* canonical reply; a transport error, a timeout or any other reply value
\* gives an error, never Ok.
C1_ValidateOkOnlyOnCanonicalReply ==
    (ret.op = "is_valid" /\ ret.ok) => ret.wire = "pong"

\* C2 (as stated): the next validate on a connection whose transport was
\* closed out-of-band returns an error, and isBroken is true only on a
\* connection that has already observed a failed I/O call.
C2_ClosedTransportFailsValidate ==
    /\ (ret.op = "is_valid" /\ ret.link \in {"fin", "rst"}) => ~ret.ok
    /\ \A c \in owned : has_broken(conns[c]) => c \in seen_fail

\* C7: a connection returned by a successful connect() is not broken right
\* after its creation, before any further I/O on it, for every valid address.
C7_FreshConnectionNotBroken ==
    (ret.op = "connect" /\ ret.ok) =>
        /\ ret.conn \in owned
        /\ ~has_broken(conns[ret.conn])
C7_Witness ==
    /\ ret.op = "connect" /\ ret.ok
    /\ mgr.connection_info.addr.tag = "Unix"
    /\ conns[ret.conn].open

\* C8: construction from a malformed address fails with InvalidClientConfig
\* (the crate's InvalidAddress), returns no manager and opens no session.
C8_MalformedAddressRejected ==
    (ctor.called /\ ctor.malformed) =>
        /\ ctor.res = "InvalidClientConfig"
        /\ mgr = NoMgr
        /\ next_id = 1
        /\ \A c \in ConnIds : conns[c] = Closed
C8_Witness ==
    ctor.called /\ ctor.malformed /\ ctor.res = "InvalidClientConfig"

IdleSet == {idle[i] : i \in 1..Len(idle)}
OutOfPool == {t \in Callers : pc[t] \in {"holding", "hung"}}
InService(c) == c \in IdleSet \/ \E t \in OutOfPool : held[t] = c

\* C3: with test_on_check_out, every connection a checkout hands to a caller
\* passed is_valid during that checkout, with a probe that read a reply; a
\* connection that failed it is discarded and never handed out.
C3_CheckedOutPassedValidate ==
    \A t \in Callers :
        (pc[t] = "holding" /\ cfg.test_on_check_out) =>
            /\ got[t].validated
            /\ got[t].round_trip
            /\ held[t] \notin discarded
C3_Witness ==
    /\ cfg.test_on_check_out
    /\ discarded # {}
    /\ \E t \in Callers : pc[t] = "holding" /\ got[t].validated

\* C4: no connection is out with two callers at once, and a connection out
\* with a caller is not idle in the pool at the same time.
C4_ExclusiveCheckout ==
    /\ \A t1, t2 \in OutOfPool : t1 # t2 => held[t1] # held[t2]
    /\ \A t \in OutOfPool : held[t] \notin IdleSet
    /\ Cardinality(IdleSet) = Len(idle)
C4_Witness ==
    /\ \E t1, t2 \in Callers :
          t1 # t2 /\ pc[t1] = "holding" /\ pc[t2] = "holding"
    /\ \E t \in Callers : pc[t] = "done"

C10_DiscardedIsTerminal ==
    [][/\ discarded \subseteq discarded'
       /\ \A c \in ConnIds :
             /\ c \in discarded => ~InService(c)'
             /\ (~InService(c) /\ InService(c)') =>
                    (c = next_id /\ next_id' = next_id + 1)]_vars
C10_Witness ==
    /\ phase = "running"
    /\ discarded # {}
    /\ \E c \in ConnIds : c \notin discarded /\ InService(c) /\ c > cfg.max_size

\* a caller is inside pool.get()
Requested(t) == pc[t] \in {"trying", "retrying", "waiting"}

\* C6 (as stated): with the service reachable and every holder releasing its
\* connection, every checkout eventually succeeds.
C6_EveryCheckoutSucceeds ==
    \A t \in Callers : Requested(t) ~> (pc[t] = "holding")

\* C6 (amended): every checkout eventually returns, with a connection or,
\* once its wait on the pool has reached the deadline, with a timeout error.
C6_EveryCheckoutReturns ==
    \A t \in Callers : Requested(t) ~> (pc[t] = "holding" \/ pc[t] = "failed")
C6_Witness ==
    /\ cfg.max_size < NumCallers
    /\ \A t \in Callers : pc[t] = "done"

\* C11: put_back drops a connection on which has_broken is true at its
\* return: that connection is discarded in the same step, is not idle and is
\* not with a caller afterwards; so no idle connection is a broken one.
C11_BrokenAtReturnIsDiscarded ==
    [][/\ \A t \in Callers :
             (pc[t] = "holding" /\ pc'[t] = "done" /\ has_broken(conns[held[t]]))
                 => /\ held[t] \in discarded'
                    /\ ~InService(held[t])'
       /\ \A c \in IdleSet' : ~has_broken(conns'[c])]_vars
C11_Witness ==
    /\ phase = "running"
    /\ ~cfg.test_on_check_out
    /\ discarded # {}
    /\ \E t \in Callers : pc[t] = "done"
    /\ \E t \in Callers : pc[t] = "holding" /\ held[t] > cfg.max_size

\* the checkout of caller t has dropped a connection that failed is_valid,
\* and the service is reachable: every session is live and the network
\* injects no further fault
RetryingOnSoundNetwork(t) ==
    /\ pc[t] = "retrying"
    /\ faults = MaxFaults
    /\ \A c \in ConnIds : conns[c].link \in {"up", "closed"}

\* caller t holds a validated connection that a connect() made after the
\* pool was built, and that was never discarded
HoldsFreshValidated(t) ==
    /\ pc[t] = "holding"
    /\ got[t].validated
    /\ held[t] \notin discarded
    /\ held[t] > cfg.max_size

C13_ValidateIdempotent ==
    [][\A c \in ConnIds :
          (/\ ret.conn = c /\ ret.ok /\ ret.op \in {"connect", "is_valid"}
           /\ conns[c].link = "up"
           /\ ret'.conn = c /\ ret'.op \in {"is_valid", "hung"}
           /\ faults' = faults)
          => /\ ret'.op = "is_valid" /\ ret'.ok
             /\ ret'.wire = "pong"
             /\ Len(conns'[c].inbuf) = Len(conns[c].inbuf)
             /\ ~has_broken(conns'[c])
             /\ conns'[c].link = "up"
             /\ streak' = Min(streak + 1, MaxStreak)]_vars
C13_Witness ==
    /\ streak = MaxStreak
    /\ ret.op = "is_valid" /\ ret.ok /\ ret.wire = "pong"
    /\ conns[ret.conn].link = "up"
    /\ ~has_broken(conns[ret.conn])

\* C14: a connect() call makes one attempt and reports what that attempt
\* met: an attempt the network refuses or never answers (or whose SELECT is
\* refused) returns an error and leaves no session and no new instance; a
\* successful call adds exactly one new open session. An is_valid call makes
\* one probe: when that probe meets an error or a timeout, the call returns
\* an error.
C14_NoInternalRetry ==
    [][/\ (ret'.op = "connect" /\ (ret' # ret \/ next_id' # next_id)) =>
             /\ ret'.ok =>
                    /\ next_id' = next_id + 1
                    /\ ret'.conn = next_id
                    /\ conns' = [conns EXCEPT ![next_id] = conns'[next_id]]
                    /\ conns[next_id] = Closed
                    /\ conns'[next_id].open
                    /\ owned' = owned \cup {next_id}
             /\ ~ret'.ok =>
                    /\ next_id' = next_id
                    /\ conns' = conns
                    /\ owned' = owned
                    /\ ret'.kind \in {"IoError", "ResponseError"}
             /\ ret'.link \in {"refused", "blackhole"} => ~ret'.ok
             /\ (ret'.link = "select_refused" /\ mgr.connection_info.db # 0)
                    => ~ret'.ok
       /\ (ret'.op = "is_valid"
            /\ ret'.wire \in {"timeout", "transport_error", "error_reply"})
               => ~ret'.ok]_vars
C14_Witness ==
    /\ ret.op = "connect" /\ ~ret.ok /\ ret.link = "refused"
    /\ next_id > 1
    /\ \A c \in ConnIds : conns[c] = Closed

\* C15 (as stated): on a manager constructed with a timeout (here for a TCP
\* endpoint), no is_valid call blocks forever: a probe the peer never answers
\* returns an error.
C15_ValidateRespectsTimeout ==
    (/\ mgr # NoMgr
     /\ mgr.timeout.tag = "Some"
     /\ mgr.connection_info.addr.tag = "Tcp")
        => ~(ret.op = "hung" /\ ret.wire = "hang")

\* a connect() call was made and the network did net to its attempt
ConnectCalled(net) ==
    /\ ret.link = net
    /\ ret.op = "connect" \/ (ret.op = "hung" /\ ret.kind = "Hang")

\* C16 (as stated): with a timeout configured, zero included, a connect()
\* whose handshake does not complete within it returns a timeout error and no
\* connection; with none configured, connect returns what the transport
\* returns under its own bound.
C16_ConnectAppliesTimeout ==
    /\ (/\ mgr # NoMgr /\ mgr.timeout.tag = "Some"
        /\ \/ ConnectCalled("blackhole")
           \/ (mgr.timeout.val = 0 /\ \E net \in NetOutcomes : ConnectCalled(net)))
          => /\ ret.op = "connect" /\ ~ret.ok
             /\ ret.kind = "IoError" /\ ret.wire = "TimedOut"
             /\ owned = {}
    /\ (/\ mgr # NoMgr /\ mgr.timeout.tag = "None"
        /\ mgr.connection_info.addr.tag = "Tcp"
        /\ ConnectCalled("blackhole"))
          => ret.op = "connect" /\ ~ret.ok /\ ret.wire = "TimedOut"

\* C17: has_broken returns a boolean for every connection state, and a
\* has_broken call returns exactly what the connection's own open flag says,
\* without I/O: the connection (flag, session, unread replies), the manager
\* and everything else but the recorded result are as before the call.
C17_HasBrokenPureTotal ==
    [][/\ \A c \in ConnIds : has_broken(conns[c]) \in BOOLEAN
       /\ (ret'.op = "has_broken" /\ ret' # ret) =>
             /\ ret'.ok \in BOOLEAN
             /\ ret'.ok = ~conns[ret'.conn].open
             /\ ret'.kind = "none"
             /\ conns' = conns
             /\ mgr' = mgr
             /\ faults' = faults
             /\ next_id' = next_id
             /\ owned' = owned
             /\ seen_fail' = seen_fail
             /\ pool_vars' = pool_vars]_vars
C17_Witness ==
    /\ ret.op = "has_broken" /\ ~ret.ok
    /\ conns[ret.conn].link = "fin"
    /\ conns[ret.conn].inbuf # <<>>

\* the threads whose connect() call has returned a connection
Connected == {t \in Callers : cstep[t] = "returned" /\ cret[t].ok}

\* C18: however connect() calls on one manager overlap, the connections they
\* return are distinct instances, each with its own open, live session; what
\* a call returns follows from what the network did to its own attempt; a
\* step of one call leaves the other calls and their connections as they
\* were; and the manager (endpoint, timeout) is never changed by a call.
C18_ConcurrentConnectsIndependent ==
    [][/\ \A t1, t2 \in Connected' :
             t1 # t2 => cret'[t1].conn # cret'[t2].conn
       /\ \A t \in Connected' :
             /\ conns'[cret'[t].conn].open
             /\ conns'[cret'[t].conn].link = "up"
       /\ \A t \in Callers :
             cstep'[t] = "returned" =>
                 /\ cret'[t].net \in {"refused", "blackhole"} => ~cret'[t].ok
                 /\ (/\ cret'[t].net = "accept"
                     /\ ~(mgr.connection_info.addr.tag = "Tcp"
                          /\ mgr.timeout = Some(0)))
                        => cret'[t].ok
       /\ \A t \in Callers :
             cstep'[t] # cstep[t] =>
                 \A u \in Callers \ {t} :
                     /\ cstep'[u] = cstep[u]
                     /\ client'[u] = client[u]
                     /\ cret'[u] = cret[u]
                     /\ u \in Connected =>
                            conns'[cret[u].conn] = conns[cret[u].conn]
       /\ mgr # NoMgr => mgr' = mgr]_vars
C18_Witness ==
    \E t1, t2, t3 \in Callers :
        /\ t1 # t2
        /\ t1 \in Connected /\ t2 \in Connected
        /\ cstep[t3] = "returned" /\ ~cret[t3].ok /\ cret[t3].net = "refused"
        /\ next_id > NumCallers

\* C19: a connection instance on which has_broken is true stays one on which
\* has_broken is true, through every is_valid and has_broken call that
\* follows and through its drop: nothing reopens it.
C19_BrokennessMonotone ==
    [][\A c \in ConnIds :
          (c < next_id /\ has_broken(conns[c])) => has_broken(conns'[c])]_vars
C19_Witness ==
    /\ ret.op = "is_valid" /\ ~ret.ok
    /\ ret.link = "shut"
    /\ ret.conn \in owned
    /\ has_broken(conns[ret.conn])

====
